---- MODULE Spec2Model ----
\* Yahoo Mail IMAP server (src/ymail/main.py): the process-wide session
\* email_config, connect_to_email, and the tools that drive one IMAP
\* connection verb by verb.  Every verb the code sends is one step; the
\* server's answer to it (OK, NO, or an exception raised by imaplib) is
\* chosen by the environment.
EXTENDS Integers, Sequences, FiniteSets, TLC

\* ---------------------------------------------------------------- bounds
MaxCalls == 2
MaxId == 2
MaxConns == 3
MaxLimit == 1
MaxBody == 2500
MaxLen == 5
MaxWords == 2
MaxParts == 2
MaxLines == 3

\* ------------------------------------------------------------- universes
Procs == {1, 2}
Folders == {"INBOX", "Archive"}
Mids == {"m1", "m2"}
Flags == {"Deleted", "Seen"}
Handles == 1..MaxConns
NoConn == 0
NoSel == "none"
Ids == 1..MaxId
FolderTools == {"search_emails", "read_email", "get_unread_count",
                "mark_as_read", "mark_as_unread", "move_email", "delete_email"}
NoOp == "none"

VARIABLES
  connection,   \* email_config.connection: NoConn (None) or a handle
  imap,         \* per handle: st (unused/created/authed) and the selected folder
  mailbox,      \* the server's folders: a sequence of messages each
  pc,           \* position of each caller inside its tool
  call,         \* the running tool's name, arguments and connect bookkeeping
  log,          \* verbs the tool body has issued in this call, with their status
  res,          \* the value the tool returns
  prev,         \* the previous completed move/delete call, for a retry
  snap,         \* the mailbox before that previous call started
  calls,        \* number of tool calls made so far
  locals        \* the local variables of a helper function while it runs

vars ==
  <<connection, imap, mailbox, pc, call, log, res, prev, snap, calls, locals>>

\* ------------------------------------------------------- the IMAP server
Msg(m, fl) == [mid |-> m, flags |-> fl]

InRange(mb, f, id) == f \in Folders /\ id \in 1..Len(mb[f])

\* COPY appends the message to the destination with its flags (RFC 3501 6.4.7).
ServerCopy(mb, f, id, dst) == [mb EXCEPT ![dst] = Append(@, mb[f][id])]

ServerStoreAdd(mb, f, id, flag) ==
  [mb EXCEPT ![f][id].flags = @ \cup {flag}]

ServerStoreDel(mb, f, id, flag) ==
  [mb EXCEPT ![f][id].flags = @ \ {flag}]

NotDeleted(m) == "Deleted" \notin m.flags

\* EXPUNGE removes every message of the selected folder that carries \Deleted.
ServerExpunge(mb, f) == [mb EXCEPT ![f] = SelectSeq(@, NotDeleted)]

\* A verb can answer OK only when the server can carry it out.
Outcomes(possible) == IF possible THEN {"OK", "NO", "EXC"} ELSE {"NO", "EXC"}

NoMsg == Msg("none", {})

FreshImap == [st |-> "unused", sel |-> NoSel]

\* A handle no caller holds: the object IMAP4_SSL(...) returns is a new one.
FreeHandles ==
  {h \in Handles : h # connection /\ \A q \in Procs : call[q].newconn # h}

\* --------------------------------------------------------------- results
Result(k, i) == [kind |-> k, info |-> i]
NoResult == Result("none", "")

Entry(v, a, st) == [v |-> v, a |-> a, st |-> st]

NoCall ==
  [op |-> NoOp, email_id |-> 0, folder |-> NoSel, dst |-> NoSel, limit |-> 0,
   conn0 |-> NoConn, newconn |-> NoConn, via |-> "none", probed |-> "none",
   probes |-> 0, attempts |-> 0, logins |-> 0, nocreds |-> FALSE,
   sel0 |-> NoSel, retry |-> FALSE, changed |-> FALSE,
   sent |-> <<>>, found |-> <<>>, fetched |-> <<>>, target |-> NoMsg, query |-> <<>>,
   todo |-> <<>>, results |-> <<>>]

NoPrev == [op |-> NoOp, email_id |-> 0, folder |-> NoSel, dst |-> NoSel,
           effects |-> {}]
NoSnap == [f \in Folders |-> <<>>]
NoLocals == [fn |-> "none"]

\* ------------------------------------------------------------------ Init
InitMailbox ==
  [f \in Folders |-> IF f = "INBOX" THEN <<Msg("m1", {}), Msg("m2", {})>>
                     ELSE <<>>]

InitServer ==
  /\ connection = NoConn
  /\ imap = [h \in Handles |-> FreshImap]
  /\ mailbox = InitMailbox
  /\ pc = [p \in Procs |-> "idle"]
  /\ call = [p \in Procs |-> NoCall]
  /\ log = [p \in Procs |-> <<>>]
  /\ res = [p \in Procs |-> NoResult]
  /\ prev = NoPrev
  /\ snap = NoSnap
  /\ calls = 0

Init ==
  /\ InitServer
  /\ locals = NoLocals

\* ------------------------------------------------------ connect_to_email
\* Line 55: a stored connection is probed first, otherwise login directly.
ConnectEntry == IF connection # NoConn THEN "probe" ELSE "creds"

\* Variants of the bodies below: a move that deletes before it copies, a
\* delete that never expunges, a read that relies on the folder selected by
\* an earlier call.
MoveDeleteFirst == <<"select", "store", "expunge", "copy">>
DeleteWithoutExpunge == <<"select", "store">>
ReadWithoutSelect == <<"fetch">>

\* Variant: a move that flags the message and never expunges.
MoveWithoutExpunge == <<"select", "copy", "store">>

\* Variant: an unread count that goes on to a STORE.
UnreadCountStores == <<"select", "search", "store">>

\* The verbs of each tool body, in the order the code issues them.
move_email == <<"select", "copy", "store", "expunge">>
delete_email == <<"select", "store", "expunge">>
mark_as_read == <<"select", "store">>
mark_as_unread == <<"select", "store">>
search_emails == <<"select", "search", "fetch">>
read_email == <<"select", "fetch">>
get_unread_count == <<"select", "search">>
list_folders == <<"list">>

Body(o) ==
  CASE o = "move_email" -> move_email
    [] o = "delete_email" -> delete_email
    [] o = "mark_as_read" -> mark_as_read
    [] o = "mark_as_unread" -> mark_as_unread
    [] o = "search_emails" -> search_emails
    [] o = "read_email" -> read_email
    [] o = "get_unread_count" -> get_unread_count
    [] OTHER -> list_folders

\* First verb of the body, reached when connect_to_email returned True.
FirstVerb(o) == Body(o)[1]

\* The step that follows step `at` of tool o when `at` answered OK.
After(o, at) ==
  LET b == Body(o)
      i == CHOOSE k \in 1..Len(b) : b[k] = at
  IN IF i < Len(b) THEN b[i + 1] ELSE "done"

\* Variant: the probe's answer is not used and every call logs in again.
ProbeNextRelogin(st) == "creds"

\* Lines 58-63: NOOP answering OK returns True; anything else falls through.
ProbeNext(st) == IF st = "OK" THEN "enter" ELSE "creds"

Probe(p) ==
  /\ pc[p] = "probe"
  /\ \E st \in {"OK", "NO", "EXC"} :
       /\ pc' = [pc EXCEPT ![p] = ProbeNext(st)]
       /\ call' = [call EXCEPT ![p].probes = @ + 1, ![p].probed = st,
                               ![p].via = IF ProbeNext(st) = "enter"
                                          THEN "probe" ELSE @]
  /\ UNCHANGED <<connection, imap, mailbox, log, res, prev, snap, calls, locals>>

ConnectFailed == Result("connect_failed", "")

\* Lines 67-72: the credentials come from the environment at every call.
Creds(p) ==
  /\ pc[p] = "creds"
  /\ \E have \in BOOLEAN :
       IF have
       THEN /\ pc' = [pc EXCEPT ![p] = "create"]
            /\ UNCHANGED <<call, res>>
       ELSE /\ pc' = [pc EXCEPT ![p] = "done"]
            /\ call' = [call EXCEPT ![p].nocreds = TRUE, ![p].via = "fail"]
            /\ res' = [res EXCEPT ![p] = ConnectFailed]
  /\ UNCHANGED <<connection, imap, mailbox, log, prev, snap, calls, locals>>

\* Variant: the new handle is stored as soon as it exists, before login.
StoreBeforeLogin(h) == h

\* Lines 75-84: email_config is assigned only after login returned.
ConnectionAfterCreate(h) == connection

\* Lines 75-76: IMAP4_SSL(...) returns a new handle or raises.
Create(p) ==
  /\ pc[p] = "create"
  /\ \E ok \in BOOLEAN :
       IF ok
       THEN LET h == CHOOSE x \in FreeHandles : TRUE
            IN /\ imap' = [imap EXCEPT ![h] = [st |-> "created", sel |-> NoSel]]
               /\ call' = [call EXCEPT ![p].attempts = @ + 1, ![p].newconn = h]
               /\ connection' = ConnectionAfterCreate(h)
               /\ pc' = [pc EXCEPT ![p] = "login"]
               /\ UNCHANGED res
       ELSE /\ call' = [call EXCEPT ![p].attempts = @ + 1, ![p].via = "fail"]
            /\ res' = [res EXCEPT ![p] = ConnectFailed]
            /\ pc' = [pc EXCEPT ![p] = "done"]
            /\ UNCHANGED <<imap, connection>>
  /\ UNCHANGED <<mailbox, log, prev, snap, calls, locals>>

\* Variant: a rejected login is tried again inside the same call.
LoginFailRetry == "create"

\* Lines 88-90: a rejected login returns False; nothing in the call tries again.
LoginFailNext == "done"

\* Lines 77-87: login, then store the connection in a new EmailConfig.
Login(p) ==
  /\ pc[p] = "login"
  /\ LET h == call[p].newconn IN
     \E ok \in BOOLEAN :
       IF ok
       THEN /\ imap' = [x \in Handles |->
                          IF x = h THEN [st |-> "authed", sel |-> NoSel]
                          ELSE IF x = connection THEN FreshImap
                          ELSE imap[x]]
            /\ connection' = h
            /\ call' = [call EXCEPT ![p].logins = @ + 1, ![p].newconn = NoConn,
                                    ![p].via = "login"]
            /\ pc' = [pc EXCEPT ![p] = "enter"]
            /\ UNCHANGED res
       ELSE /\ imap' = [imap EXCEPT ![h] = FreshImap]
            /\ call' = [call EXCEPT ![p].logins = @ + 1, ![p].newconn = NoConn,
                                    ![p].via = IF LoginFailNext = "done"
                                               THEN "fail" ELSE @]
            /\ res' = [res EXCEPT ![p] = IF LoginFailNext = "done"
                                         THEN ConnectFailed ELSE @]
            /\ pc' = [pc EXCEPT ![p] = LoginFailNext]
            /\ UNCHANGED connection
  /\ UNCHANGED <<mailbox, log, prev, snap, calls, locals>>

\* ------------------------------------------------------------ tool entry
Queries == {<<"x">>, <<"o", "n">>}

\* Every tool starts with `if not connect_to_email(ctx): return ...`, which
\* reads none of the tool's arguments: a call arrives and connects first.
\* The tools are synchronous functions run by one dispatcher, so a tool runs
\* to its return before the next one starts.
Arrive(p) ==
  /\ pc[p] = "idle"
  /\ calls < MaxCalls
  /\ calls' = calls + 1
  /\ pc' = [pc EXCEPT ![p] = ConnectEntry]
  /\ call' = [call EXCEPT ![p] = [NoCall EXCEPT !.conn0 = connection]]
  /\ log' = [log EXCEPT ![p] = <<>>]
  /\ res' = [res EXCEPT ![p] = NoResult]
  /\ UNCHANGED <<connection, imap, mailbox, prev, snap, locals>>

Start(p) == p = 1 /\ Arrive(p)

\* connect_to_email returned True: the body of the called tool starts, with
\* the arguments it was called with.
Invoke(p, o, id, f, d, lim, q, r) ==
  /\ pc[p] = "enter"
  /\ pc' = [pc EXCEPT ![p] = FirstVerb(o)]
  /\ call' = [call EXCEPT ![p] =
       [NoCall EXCEPT !.op = o, !.email_id = id, !.folder = f, !.dst = d,
                      !.limit = lim, !.query = q, !.via = call[p].via,
                      !.retry = r, !.sel0 = imap[connection].sel]]
  /\ UNCHANGED <<connection, imap, mailbox, log, res, calls, locals>>

Enter(p) ==
  /\ \/ Invoke(p, "list_folders", 0, NoSel, NoSel, 0, <<>>, FALSE)
     \/ \E f \in Folders, lim \in 0..MaxLimit, q \in Queries :
          Invoke(p, "search_emails", 0, f, NoSel, lim, q, FALSE)
     \/ \E f \in Folders : Invoke(p, "get_unread_count", 0, f, NoSel, 0, <<>>, FALSE)
     \/ \E o \in {"read_email", "mark_as_read", "mark_as_unread",
                  "delete_email"}, id \in Ids, f \in Folders :
          Invoke(p, o, id, f, NoSel, 0, <<>>, FALSE)
     \/ \E id \in Ids, f \in Folders, d \in Folders :
          Invoke(p, "move_email", id, f, d, 0, <<>>, FALSE)
  /\ UNCHANGED <<prev, snap>>

\* ----------------------------------------------------------- tool bodies
Logged(p, v, a, st) == [log EXCEPT ![p] = Append(@, Entry(v, a, st))]

\* Variant: what a verb raises is not turned into a value for the caller.
ExceptionEscapes == NoResult

\* The except clause of every tool: return f"Error ...: {str(e)}".
Exception == Result("exception", "")
Ok == Result("ok", "")

\* The outcomes of a verb on handle h: imaplib raises when no folder is selected.
VerbOutcomes(h, possible) ==
  IF imap[h].sel = NoSel THEN {"EXC"} ELSE Outcomes(possible)

\* Where the tool goes after a verb, and what it returns when that ends it.
Goto(p, at, r) ==
  /\ pc' = [pc EXCEPT ![p] = at]
  /\ res' = [res EXCEPT ![p] = IF at = "done" THEN r ELSE @]

\* Variant: the status of SELECT is not looked at.
SelectNextIgnoresStatus(st, o) == After(o, "select")

\* Lines 275-277 (and the same test in every tool): status != 'OK' returns.
SelectNext(st, o) == IF st = "OK" THEN After(o, "select") ELSE "done"

Select(p) ==
  /\ pc[p] = "select"
  /\ LET h == connection
         f == call[p].folder
         o == call[p].op IN
     \E st \in Outcomes(f \in Folders) :
       /\ log' = Logged(p, "SELECT", f, st)
       /\ imap' = [imap EXCEPT ![h].sel = IF st = "OK" THEN f
                                          ELSE IF st = "NO" THEN NoSel ELSE @]
       /\ call' = [call EXCEPT ![p].target =
            IF st = "OK" /\ o = "move_email"
               /\ InRange(mailbox, f, call[p].email_id)
            THEN mailbox[f][call[p].email_id] ELSE @]
       /\ Goto(p, SelectNext(st, o),
               IF st = "EXC" THEN Exception ELSE Result("folder_error", f))
  /\ UNCHANGED <<connection, mailbox, prev, snap, calls, locals>>

\* Lines 459-461: COPY of the id in the selected folder to the destination.
Copy(p) ==
  /\ pc[p] = "copy"
  /\ LET h == connection
         f == imap[h].sel
         id == call[p].email_id
         d == call[p].dst IN
     \E st \in VerbOutcomes(h, InRange(mailbox, f, id) /\ d \in Folders) :
       /\ log' = Logged(p, "COPY", d, st)
       /\ mailbox' = IF st = "OK" THEN ServerCopy(mailbox, f, id, d) ELSE mailbox
       /\ Goto(p, IF st = "OK" THEN After(call[p].op, "copy") ELSE "done",
               IF st = "EXC" THEN Exception ELSE Result("copy_failed", d))
       /\ call' = [call EXCEPT ![p].changed = @ \/ st = "OK"]
  /\ UNCHANGED <<connection, imap, prev, snap, calls, locals>>

\* Variant: the mark tools store the flag delete_email stores.
StoreDeletedFlag(o) == "Deleted"

StoreFlag(o) ==
  IF o \in {"mark_as_read", "mark_as_unread"} THEN "Seen" ELSE "Deleted"

StoreFailed(o) ==
  IF o \in {"mark_as_read", "mark_as_unread"} THEN Result("mark_failed", "")
  ELSE Result("flag_failed", "")

\* Lines 413, 436, 464, 490: STORE +FLAGS / -FLAGS on the id.
Store(p) ==
  /\ pc[p] = "store"
  /\ LET h == connection
         f == imap[h].sel
         id == call[p].email_id
         o == call[p].op IN
     \E st \in VerbOutcomes(h, InRange(mailbox, f, id)) :
       /\ log' = Logged(p, "STORE", StoreFlag(o), st)
       /\ mailbox' = IF st # "OK" THEN mailbox
                     ELSE IF o = "mark_as_unread"
                          THEN ServerStoreDel(mailbox, f, id, StoreFlag(o))
                          ELSE ServerStoreAdd(mailbox, f, id, StoreFlag(o))
       /\ Goto(p, IF st = "OK" THEN After(o, "store") ELSE "done",
               IF st = "OK" THEN Ok
               ELSE IF st = "EXC" THEN Exception ELSE StoreFailed(o))
       /\ call' = [call EXCEPT ![p].changed = @ \/ st = "OK"]
  /\ UNCHANGED <<connection, imap, prev, snap, calls, locals>>

\* Lines 469-471 and 495-497: the status expunge() returns is not looked at.
ExpungeResult(st) == IF st = "EXC" THEN Exception ELSE Ok

Expunge(p) ==
  /\ pc[p] = "expunge"
  /\ LET h == connection
         f == imap[h].sel IN
     \E st \in VerbOutcomes(h, TRUE) :
       /\ log' = Logged(p, "EXPUNGE", "", st)
       /\ mailbox' = IF st = "OK" THEN ServerExpunge(mailbox, f) ELSE mailbox
       /\ Goto(p, "done", ExpungeResult(st))
       /\ call' = [call EXCEPT ![p].changed = @ \/ st = "OK"]
  /\ UNCHANGED <<connection, imap, prev, snap, calls, locals>>

\* ------------------------------------------------------- search and fetch
Keywords ==
  { <<"F","R","O","M">>, <<"T","O">>, <<"S","U","B","J","E","C","T">>,
    <<"B","O","D","Y">>, <<"T","E","X","T">>, <<"S","I","N","C","E">>,
    <<"B","E","F","O","R","E">>, <<"O","N">> }

\* str.upper() on the characters the queries are written with.
UpperChar(c) ==
  CASE c = "o" -> "O" [] c = "n" -> "N" [] c = "t" -> "T" [] c = "x" -> "X"
    [] OTHER -> c

Upper(q) == [i \in 1..Len(q) |-> UpperChar(q[i])]

\* Python's `x in s` for strings: x occurs as a contiguous run of s.
Contains(s, x) ==
  \E i \in 0..(Len(s) - Len(x)) : \A k \in 1..Len(x) : s[i + k] = x[k]

\* Line 281: any(x in query.upper() for x in [...]).
HasKeyword(q) == \E x \in Keywords : Contains(Upper(q), x)

All == <<"A","L","L">>
Unseen == <<"U","N","S","E","E","N">>

\* Variant: the query is passed on as written.
ImapQueryVerbatim(q) == q

\* Lines 280-283: the query sent to the server.
ImapQuery(q) == IF HasKeyword(q) THEN q ELSE All

\* The ids of S in increasing order.
SetToSeq(S) ==
  CHOOSE s \in [1..Cardinality(S) -> S] :
    /\ \A i \in 1..Cardinality(S) : \A j \in 1..Cardinality(S) :
         i < j => s[i] < s[j]

\* What SEARCH can answer: sequence numbers of the folder, in increasing order.
ServerSearch(mb, f, crit) ==
  LET n == Len(mb[f]) IN
  IF crit = All THEN {SetToSeq(1..n)}
  ELSE IF crit = Unseen
       THEN {SetToSeq({i \in 1..n : "Seen" \notin mb[f][i].flags})}
       ELSE {SetToSeq(S) : S \in SUBSET (1..n)}

Min(a, b) == IF a < b THEN a ELSE b

\* Variant: the first ids of the list instead of the last.
HeadSlice(ids, limit) == SubSeq(ids, 1, Min(limit, Len(ids)))

\* Line 294: message_ids[-min(limit, len(message_ids)):]; -0 slices from 0.
TailSlice(ids, limit) ==
  LET n == Len(ids)
      k == Min(limit, n)
      from == IF k = 0 THEN 1
              ELSE IF k > 0 THEN n - k + 1
              ELSE Min(n, 0 - k) + 1
  IN SubSeq(ids, from, n)

\* Lines 286-294 and 387-392: SEARCH, then the slice or the count.
Search(p) ==
  /\ pc[p] = "search"
  /\ LET h == connection
         f == imap[h].sel
         o == call[p].op
         crit == IF o = "search_emails" THEN ImapQuery(call[p].query)
                 ELSE Unseen IN
     \E st \in VerbOutcomes(h, TRUE) :
       /\ log' = Logged(p, "SEARCH", "", st)
       /\ IF st = "OK"
          THEN \E ids \in ServerSearch(mailbox, f, crit) :
                 IF o = "search_emails"
                 THEN /\ call' = [call EXCEPT ![p].todo =
                                    TailSlice(ids, call[p].limit),
                                  ![p].sent = crit, ![p].found = ids]
                      /\ Goto(p, IF TailSlice(ids, call[p].limit) = <<>>
                                 THEN "done" ELSE After(o, "search"),
                              Result("no_results", ""))
                 ELSE /\ call' = [call EXCEPT ![p].results = ids,
                                               ![p].sent = crit]
                      /\ Goto(p, After(o, "search"), Ok)
          ELSE /\ Goto(p, "done", IF st = "EXC" THEN Exception
                                  ELSE Result("search_failed", ""))
               /\ call' = [call EXCEPT ![p].sent = crit]
  /\ UNCHANGED <<connection, imap, mailbox, prev, snap, calls, locals>>

\* FETCH of an id the folder does not hold answers OK with no data.
FetchOutcomes(h, f, id) ==
  IF imap[h].sel = NoSel THEN {"EXC"}
  ELSE IF InRange(mailbox, f, id) THEN {"OK", "NO", "EXC"}
  ELSE {"EMPTY", "NO", "EXC"}

\* FETCH (RFC822) sets \Seen on the message it returns.
ServerFetch(mb, f, id) == ServerStoreAdd(mb, f, id, "Seen")

\* Lines 297-320 (search_emails) and 345-368 (read_email).
Fetch(p) ==
  /\ pc[p] = "fetch"
  /\ LET h == connection
         f == imap[h].sel
         o == call[p].op
         id == IF o = "search_emails" THEN Head(call[p].todo)
               ELSE call[p].email_id IN
     \E st \in FetchOutcomes(h, f, id) :
       /\ log' = Logged(p, "FETCH", "", st)
       /\ mailbox' = IF st = "OK" THEN ServerFetch(mailbox, f, id) ELSE mailbox
       /\ IF o = "search_emails"
          THEN LET got == IF st = "OK" THEN Append(call[p].results, id)
                          ELSE call[p].results
                   rest == Tail(call[p].todo) IN
               /\ call' = [call EXCEPT ![p].todo = rest, ![p].results = got,
                                       ![p].fetched = Append(@, id),
                                       ![p].changed = @ \/ st = "OK"]
               /\ Goto(p, IF st \in {"EXC", "EMPTY"} \/ rest = <<>>
                          THEN "done" ELSE "fetch",
                       IF st \in {"EXC", "EMPTY"} THEN Exception
                       ELSE IF got = <<>> THEN Result("no_results", "")
                       ELSE Ok)
          ELSE /\ call' = [call EXCEPT ![p].changed = @ \/ st = "OK"]
               /\ Goto(p, "done",
                       IF st = "OK" THEN Ok
                       ELSE IF st = "NO" THEN Result("fetch_failed", "")
                       ELSE Exception)
  /\ UNCHANGED <<connection, imap, prev, snap, calls, locals>>

\* Lines 210-213: LIST needs no selected folder.
List(p) ==
  /\ pc[p] = "list"
  /\ \E st \in {"OK", "NO", "EXC"} :
       /\ log' = Logged(p, "LIST", "", st)
       /\ Goto(p, "done", IF st = "OK" THEN Ok
                          ELSE IF st = "NO" THEN Result("list_failed", "")
                          ELSE Exception)
  /\ UNCHANGED <<connection, imap, mailbox, call, prev, snap, calls, locals>>

\* Verbs of a call that changed the mailbox.
Effects(l) ==
  {l[i].v : i \in {k \in 1..Len(l) : l[k].st = "OK"}}
    \cap {"COPY", "STORE", "EXPUNGE"}

\* The tool hands its value to the caller.
Return(p) ==
  /\ pc[p] = "done"
  /\ pc' = [pc EXCEPT ![p] = "idle"]
  /\ call' = [call EXCEPT ![p] = NoCall]
  /\ log' = [log EXCEPT ![p] = <<>>]
  /\ res' = [res EXCEPT ![p] = NoResult]
  /\ UNCHANGED <<connection, imap, mailbox, prev, snap, calls, locals>>

Next ==
  \E p \in Procs :
    \/ Start(p) \/ Enter(p)
    \/ Probe(p) \/ Creds(p) \/ Create(p) \/ Login(p)
    \/ Select(p) \/ Copy(p) \/ Store(p) \/ Expunge(p)
    \/ Search(p) \/ Fetch(p) \/ List(p)
    \/ Return(p)

Spec == Init /\ [][Next]_vars

\* ---------------------------------------------------------- server_lifespan
\* Variant: the logout is sent whether or not a connection is stored.
LogsOutAlways(c) == TRUE

\* Line 23: email_config and email_config.connection.
LogsOut(c) == c # NoConn

\* Lines 22-27, the finally block, run once when the server stops: logout()
\* on the stored connection answers or raises, and the bare except swallows
\* what it raises.
Lifespan ==
  /\ \A p \in Procs : pc[p] = "idle"
  /\ \E st \in IF LogsOut(connection) THEN {"OK", "NO", "EXC"} ELSE {"none"} :
       /\ log' = [p \in Procs |->
                    IF p = 1 /\ LogsOut(connection)
                    THEN <<Entry("LOGOUT", "", st)>> ELSE <<>>]
       /\ imap' = IF connection # NoConn /\ st = "OK"
                  THEN [imap EXCEPT ![connection] =
                          [st |-> "logout", sel |-> NoSel]]
                  ELSE imap
  /\ pc' = [p \in Procs |-> "stopped"]
  /\ res' = [p \in Procs |-> Result("stopped", "")]
  /\ UNCHANGED <<connection, mailbox, call, prev, snap, calls, locals>>

NextLifespan == Next \/ Lifespan

SpecLifespan == Init /\ [][NextLifespan]_vars

\* ------------------------------------------------- a call and its retry
\* The caller repeats a move or a delete with the same arguments: prev keeps
\* the first call and what it changed, snap the mailbox it started from.
IsRetry(o, id, f, d) ==
  prev.op = o /\ prev.email_id = id /\ prev.folder = f /\ prev.dst = d

EnterTracked(p) ==
  \E o \in {"move_email", "delete_email"}, id \in Ids, f \in Folders,
     d \in Folders \cup {NoSel} :
    /\ (o = "move_email") = (d \in Folders)
    /\ Invoke(p, o, id, f, d, 0, <<>>, IsRetry(o, id, f, d))
    /\ prev' = IF IsRetry(o, id, f, d) THEN prev ELSE NoPrev
    /\ snap' = IF IsRetry(o, id, f, d) THEN snap ELSE mailbox

ReturnTracked(p) ==
  /\ pc[p] = "done"
  /\ pc' = [pc EXCEPT ![p] = "idle"]
  /\ LET c == call[p]
         first == c.op # NoOp /\ ~c.retry IN
     /\ prev' = IF first
                THEN [op |-> c.op, email_id |-> c.email_id, folder |-> c.folder,
                      dst |-> c.dst, effects |-> Effects(log[p])]
                ELSE NoPrev
     /\ snap' = IF first THEN snap ELSE NoSnap
  /\ call' = [call EXCEPT ![p] = NoCall]
  /\ log' = [log EXCEPT ![p] = <<>>]
  /\ res' = [res EXCEPT ![p] = NoResult]
  /\ UNCHANGED <<connection, imap, mailbox, calls, locals>>

NextRetry ==
  \E p \in Procs :
    \/ Start(p) \/ EnterTracked(p)
    \/ Probe(p) \/ Creds(p) \/ Create(p) \/ Login(p)
    \/ Select(p) \/ Copy(p) \/ Store(p) \/ Expunge(p)
    \/ ReturnTracked(p)

SpecRetry == Init /\ [][NextRetry]_vars

\* --------------------------------------------- two callers at the same time
\* The module holds no lock around email_config: when the host runs two tool
\* calls on two threads, their verbs interleave on the one connection.
StartConc(p) ==
  /\ pc[p] = "idle"
  /\ Arrive(p)

EnterConc(p) ==
  /\ \/ \E o \in {"read_email", "delete_email"}, id \in Ids, f \in Folders :
          Invoke(p, o, id, f, NoSel, 0, <<>>, FALSE)
     \/ \E id \in Ids, f \in Folders, d \in Folders :
          Invoke(p, "move_email", id, f, d, 0, <<>>, FALSE)
  /\ UNCHANGED <<prev, snap>>

NextConc ==
  \E p \in Procs :
    \/ StartConc(p) \/ EnterConc(p)
    \/ Probe(p) \/ Creds(p) \/ Create(p) \/ Login(p)
    \/ Select(p) \/ Copy(p) \/ Store(p) \/ Expunge(p)
    \/ Fetch(p)
    \/ Return(p)

SpecConc == Init /\ [][NextConc]_vars

\* ------------------------------------------------ read_email: body field
\* Text is a sequence of code points.
BodyLimit == 2000
Marker == <<46, 46, 46>>

\* Python's t[:n].
Take(t, n) == SubSeq(t, 1, Min(n, Len(t)))

\* Variant: the body is cut and nothing tells the reader so.
CutWithoutMarker(body) == Take(body, BodyLimit)

\* Line 365: body[:2000] + ("..." if len(body) > 2000 else "").
Truncated(body) ==
  Take(body, BodyLimit) \o (IF Len(body) > BodyLimit THEN Marker ELSE <<>>)

\* A body of n characters, all different: the k-th is the code point k.
BodyOf(n) == [k \in 1..n |-> k]

InitBody ==
  /\ InitServer
  /\ locals \in {[fn |-> "read_email", body |-> BodyOf(n), at |-> "call",
                  out |-> <<>>] : n \in 0..MaxBody}

TruncateBody ==
  /\ locals.fn = "read_email"
  /\ locals.at = "call"
  /\ locals' = [locals EXCEPT !.at = "return", !.out = Truncated(locals.body)]
  /\ UNCHANGED <<connection, imap, mailbox, pc, call, log, res, prev, snap,
                 calls>>

NextBody == TruncateBody

SpecBody == InitBody /\ [][NextBody]_vars

\* ------------------------------------------------- decode_modified_utf7
\* Positions are counted from 1 here and from 0 in the code.
Amp == 38
Dash == 45
Comma == 44
Slash == 47

\* '&', '-', ',', '!', 'A', 'E' and the non-ASCII letter e-acute.
Alphabet == {Amp, Dash, Comma, 33, 65, 69, 233}
Strings == UNION {[1..n -> Alphabet] : n \in 0..MaxLen}

server == <<connection, imap, mailbox, pc, call, log, res, prev, snap, calls>>

\* s.find(c, from): the first position from `from` on that holds c; 0 stands
\* for Python's -1.
Find(s, c, from) ==
  IF \E k \in from..Len(s) : s[k] = c
  THEN CHOOSE k \in from..Len(s) :
         s[k] = c /\ \A m \in from..(k - 1) : s[m] # c
  ELSE 0

\* str.replace for single characters.
Replace(t, a, b) == [k \in 1..Len(t) |-> IF t[k] = a THEN b ELSE t[k]]

\* Line 177-179: the number of '=' appended.
Padding(encoded) ==
  LET padding == Len(encoded) % 4 IN
  IF padding > 0 THEN 4 - padding ELSE 0

\* The value of a character of the Base64 alphabet, -1 for any other.
B64Value(c) ==
  IF c \in 65..90 THEN c - 65
  ELSE IF c \in 97..122 THEN c - 71
  ELSE IF c \in 48..57 THEN c + 4
  ELSE IF c = 43 THEN 62
  ELSE IF c = Slash THEN 63
  ELSE 0 - 1

IsB64(c) == B64Value(c) >= 0

IsAscii(t) == \A k \in 1..Len(t) : t[k] < 128

\* base64.b64decode skips the characters outside its alphabet.
B64Data(encoded) == SelectSeq(encoded, IsB64)

\* It accepts the text when the characters it kept fill whole groups of four,
\* or leave a group of two or three that the appended '=' complete.
B64Accepts(encoded) ==
  LET q == Len(B64Data(encoded)) % 4 IN
  q = 0 \/ (q >= 2 /\ q + Padding(encoded) >= 4)

Bit(data, b) == (B64Value(data[(b \div 6) + 1]) \div (2 ^ (5 - (b % 6)))) % 2

ByteAt(data, k) ==
  LET B(t) == Bit(data, 8 * k + t) IN
  128 * B(0) + 64 * B(1) + 32 * B(2) + 16 * B(3)
    + 8 * B(4) + 4 * B(5) + 2 * B(6) + B(7)

B64Bytes(encoded) ==
  LET data == B64Data(encoded) IN
  [k \in 1..((Len(data) * 6) \div 8) |-> ByteAt(data, k - 1)]

\* bytes.decode('utf-16be'): 16-bit units, surrogates in pairs only.
Units(bytes) ==
  [m \in 1..(Len(bytes) \div 2) |-> 256 * bytes[2 * m - 1] + bytes[2 * m]]

IsHigh(u) == u \in 55296..56319
IsLow(u) == u \in 56320..57343

RECURSIVE WellFormed16(_)
WellFormed16(u) ==
  IF u = <<>> THEN TRUE
  ELSE IF IsHigh(u[1])
       THEN Len(u) >= 2 /\ IsLow(u[2]) /\ WellFormed16(SubSeq(u, 3, Len(u)))
       ELSE ~IsLow(u[1]) /\ WellFormed16(Tail(u))

RECURSIVE Text16(_)
Text16(u) ==
  IF u = <<>> THEN <<>>
  ELSE IF IsHigh(u[1])
       THEN <<65536 + (u[1] - 55296) * 1024 + (u[2] - 56320)>>
              \o Text16(SubSeq(u, 3, Len(u)))
       ELSE <<u[1]>> \o Text16(Tail(u))

Utf16Accepts(bytes) == Len(bytes) % 2 = 0 /\ WellFormed16(Units(bytes))

\* Lines 173-188: what the try block does with the text between '&' and '-'.
DecodePayload(payload) ==
  LET encoded == Replace(payload, Comma, Slash) IN
  IF ~IsAscii(encoded) THEN [kind |-> "ValueError", text |-> <<>>]
  ELSE IF ~B64Accepts(encoded)
       THEN [kind |-> "binascii.Error", text |-> <<>>]
  ELSE IF ~Utf16Accepts(B64Bytes(encoded))
       THEN [kind |-> "UnicodeDecodeError", text |-> <<>>]
  ELSE [kind |-> "ok", text |-> Text16(Units(B64Bytes(encoded)))]

\* Line 189: except (UnicodeDecodeError, binascii.Error).
Caught(kind) == kind \in {"UnicodeDecodeError", "binascii.Error"}

Utf7Locals(s) ==
  [fn |-> "decode_modified_utf7", s |-> s, i |-> 1, result |-> <<>>,
   at |-> "call", last |-> "none", from |-> 0, mark |-> 0]

InitUtf7 ==
  /\ InitServer
  /\ locals \in {Utf7Locals(s) : s \in Strings}

Looping ==
  /\ locals.fn = "decode_modified_utf7"
  /\ locals.at = "loop"
  /\ locals.i <= Len(locals.s)

\* One pass of the loop body: text is appended and i moves to next.  The
\* branch taken, the position it started at and the length of the result
\* before it are remembered.
Pass(kind, text, next) ==
  /\ locals' = [locals EXCEPT !.result = @ \o text, !.i = next,
                              !.last = kind, !.from = locals.i,
                              !.mark = Len(locals.result)]
  /\ UNCHANGED server

\* Variant: every character but the last starts an escape.
AnyCharStarts(s, i) == i + 1 <= Len(s)

\* Line 161: s[i] == '&' and i + 1 < len(s).
EscapeStart(s, i) == s[i] = Amp /\ i + 1 <= Len(s)

\* Variant: "&-" is read as an escape with nothing in it.
NeverLiteral(i, j) == FALSE

\* Line 168: j == i + 1.
LiteralAmpersand(i, j) == j = i + 1

\* Lines 155-159.
Utf7Begin ==
  /\ locals.fn = "decode_modified_utf7"
  /\ locals.at = "call"
  /\ locals' = [locals EXCEPT
                  !.at = IF locals.s = <<>> THEN "return" ELSE "loop"]
  /\ UNCHANGED server

\* Lines 194-197.
Utf7Plain ==
  /\ Looping
  /\ ~EscapeStart(locals.s, locals.i)
  /\ Pass("plain", <<locals.s[locals.i]>>, locals.i + 1)

\* Lines 163-167.
Utf7NoDash ==
  /\ Looping
  /\ EscapeStart(locals.s, locals.i)
  /\ Find(locals.s, Dash, locals.i + 1) = 0
  /\ Pass("nodash", <<Amp>>, locals.i + 1)

\* Lines 168-171.
Utf7Literal ==
  /\ Looping
  /\ EscapeStart(locals.s, locals.i)
  /\ LET j == Find(locals.s, Dash, locals.i + 1) IN
     /\ j # 0
     /\ LiteralAmpersand(locals.i, j)
     /\ Pass("literal", <<Amp>>, locals.i + 2)

\* Lines 172-193.
Utf7Escape ==
  /\ Looping
  /\ EscapeStart(locals.s, locals.i)
  /\ LET j == Find(locals.s, Dash, locals.i + 1)
         payload == SubSeq(locals.s, locals.i + 1, j - 1)
         d == DecodePayload(payload) IN
     /\ j # 0
     /\ ~LiteralAmpersand(locals.i, j)
     /\ IF d.kind = "ok" THEN Pass("decoded", d.text, j + 1)
        ELSE IF Caught(d.kind)
             THEN Pass("fallback", <<Amp>> \o payload \o <<Dash>>, j + 1)
        ELSE /\ locals' = [locals EXCEPT !.at = "raise", !.last = "raised",
                                         !.from = locals.i,
                                         !.mark = Len(locals.result)]
             /\ UNCHANGED server

\* Lines 160 and 199: the loop ends and the result is returned.
Utf7Return ==
  /\ locals.fn = "decode_modified_utf7"
  /\ locals.at = "loop"
  /\ locals.i > Len(locals.s)
  /\ locals' = [locals EXCEPT !.at = "return"]
  /\ UNCHANGED server

NextUtf7 ==
  \/ Utf7Begin \/ Utf7Plain \/ Utf7NoDash \/ Utf7Literal \/ Utf7Escape
  \/ Utf7Return

SpecUtf7 == InitUtf7 /\ [][NextUtf7]_vars

\* -------------------------------------------------- decode_email_header
\* A header is a sequence of literal spans and encoded words.  An encoded
\* word names a character set and carries bytes; b64ok is FALSE for a word
\* in B encoding whose Base64 text cannot be decoded.
Literal(t) ==
  [kind |-> "literal", charset |-> "none", bytes |-> t, b64ok |-> TRUE]
Encoded(cs, b, ok) ==
  [kind |-> "encoded", charset |-> cs, bytes |-> b, b64ok |-> ok]

Charsets == {"utf-8", "iso-8859-1", "x-unknown"}
ByteStrings == {<<65>>, <<195, 169>>, <<169>>, <<195>>}
Items ==
  {Literal(<<65>>)}
    \cup {Encoded(cs, b, ok) : cs \in Charsets, b \in ByteStrings,
                               ok \in BOOLEAN}
Headers ==
  {h \in UNION {[1..n -> Items] : n \in 1..MaxWords} :
     \A k \in 1..(Len(h) - 1) :
       ~(h[k].kind = "literal" /\ h[k + 1].kind = "literal")}

\* bytes.decode('utf-8', errors='replace') on one- and two-byte sequences.
RECURSIVE Utf8Replace(_)
Utf8Replace(b) ==
  IF b = <<>> THEN <<>>
  ELSE IF b[1] < 128 THEN <<b[1]>> \o Utf8Replace(Tail(b))
  ELSE IF b[1] \in 194..223 /\ Len(b) >= 2 /\ b[2] \in 128..191
       THEN <<(b[1] - 192) * 64 + (b[2] - 128)>>
              \o Utf8Replace(SubSeq(b, 3, Len(b)))
  ELSE <<65533>> \o Utf8Replace(Tail(b))

RECURSIVE Utf8Valid(_)
Utf8Valid(b) ==
  IF b = <<>> THEN TRUE
  ELSE IF b[1] < 128 THEN Utf8Valid(Tail(b))
  ELSE /\ b[1] \in 194..223 /\ Len(b) >= 2 /\ b[2] \in 128..191
       /\ Utf8Valid(SubSeq(b, 3, Len(b)))

\* value.decode(encoding) returns: the codec exists and accepts the bytes.
StrictOk(cs, b) == cs = "iso-8859-1" \/ (cs = "utf-8" /\ Utf8Valid(b))
StrictText(cs, b) == IF cs = "iso-8859-1" THEN b ELSE Utf8Replace(b)

\* email.header.decode_header joins neighbouring words of one character set.
RECURSIVE Collapse(_)
Collapse(ps) ==
  IF Len(ps) <= 1 THEN ps
  ELSE IF ps[1].charset = ps[2].charset
       THEN Collapse(<<[ps[1] EXCEPT !.bytes = @ \o ps[2].bytes]>>
                       \o SubSeq(ps, 3, Len(ps)))
       ELSE <<ps[1]>> \o Collapse(Tail(ps))

\* Line 95: the (value, encoding) pairs; a header without encoded words comes
\* back as one str.
DecodeHeader(h) ==
  IF \A k \in 1..Len(h) : h[k].kind = "literal"
  THEN <<[str |-> TRUE, bytes |-> h[1].bytes, charset |-> "none"]>>
  ELSE Collapse([k \in 1..Len(h) |->
                   [str |-> FALSE, bytes |-> h[k].bytes,
                    charset |-> h[k].charset]])

HeaderLocals(h) ==
  [fn |-> "decode_email_header", header |-> h, at |-> "call",
   decoded_headers |-> <<>>, k |-> 1, header_text |-> <<>>]

InitHeader ==
  /\ InitServer
  /\ locals \in {HeaderLocals(h) : h \in Headers}

Malformed(h) == \E k \in 1..Len(h) : ~h[k].b64ok

\* Line 95, decode_header returns.
HeaderParse ==
  /\ locals.fn = "decode_email_header"
  /\ locals.at = "call"
  /\ ~Malformed(locals.header)
  /\ locals' = [locals EXCEPT !.at = "loop",
                              !.decoded_headers = DecodeHeader(locals.header)]
  /\ UNCHANGED server

\* Line 95, decode_header raises HeaderParseError, outside any try.
HeaderParseError ==
  /\ locals.fn = "decode_email_header"
  /\ locals.at = "call"
  /\ Malformed(locals.header)
  /\ locals' = [locals EXCEPT !.at = "raise"]
  /\ UNCHANGED server

AtPair ==
  /\ locals.fn = "decode_email_header"
  /\ locals.at = "loop"
  /\ locals.k <= Len(locals.decoded_headers)

Add(text) ==
  /\ locals' = [locals EXCEPT !.header_text = @ \o text, !.k = @ + 1]
  /\ UNCHANGED server

\* Lines 99-102.
HeaderCharset ==
  /\ AtPair
  /\ LET pr == locals.decoded_headers[locals.k] IN
     /\ ~pr.str /\ pr.charset # "none"
     /\ StrictOk(pr.charset, pr.bytes)
     /\ Add(StrictText(pr.charset, pr.bytes))

\* Lines 105-106.
HeaderFallback ==
  /\ AtPair
  /\ LET pr == locals.decoded_headers[locals.k] IN
     /\ ~pr.str /\ pr.charset # "none"
     /\ ~StrictOk(pr.charset, pr.bytes)
     /\ Add(Utf8Replace(pr.bytes))

\* Lines 103-104.
HeaderNoCharset ==
  /\ AtPair
  /\ LET pr == locals.decoded_headers[locals.k] IN
     /\ ~pr.str /\ pr.charset = "none"
     /\ Add(Utf8Replace(pr.bytes))

\* Lines 107-108.
HeaderStr ==
  /\ AtPair
  /\ LET pr == locals.decoded_headers[locals.k] IN
     /\ pr.str
     /\ Add(pr.bytes)

\* Line 110.
HeaderReturn ==
  /\ locals.fn = "decode_email_header"
  /\ locals.at = "loop"
  /\ locals.k > Len(locals.decoded_headers)
  /\ locals' = [locals EXCEPT !.at = "return"]
  /\ UNCHANGED server

NextHeader ==
  \/ HeaderParse \/ HeaderParseError
  \/ HeaderCharset \/ HeaderFallback \/ HeaderNoCharset \/ HeaderStr
  \/ HeaderReturn

SpecHeader == InitHeader /\ [][NextHeader]_vars

\* -------------------------------------------------------- get_email_body
\* str(part.get("Content-Disposition")) of a part: "None" when the header is
\* absent, otherwise the header value as written.
Dispositions ==
  { <<"N","o","n","e">>,
    <<"i","n","l","i","n","e">>,
    <<"a","t","t","a","c","h","m","e","n","t">>,
    <<"A","T","T","A","C","H","M","E","N","T">>,
    <<"i","n","l","i","n","e",";"," ","f","i","l","e","n","a","m","e","=",
      "a","t","t","a","c","h","m","e","n","t",".","t","x","t">> }

\* One element of msg.walk(): raises says that get_payload(decode=True)
\* raises, payload is what it returns otherwise (None is the empty payload).
Parts ==
  {q \in [content_type : {"text/plain", "text/html", "image/png"},
          disposition : Dispositions, raises : BOOLEAN,
          payload : {<<>>, <<112>>, <<104>>, <<169>>}] :
     q.raises => q.payload = <<>>}

\* A message: walk is msg.walk(), which for a multipart message starts with
\* the container itself, a part without payload.
Messages ==
  LET root == [content_type |-> "multipart/mixed",
               disposition |-> <<"N","o","n","e">>, raises |-> FALSE,
               payload |-> <<>>] IN
  {[multipart |-> FALSE, walk |-> <<q>>] : q \in Parts}
    \cup {[multipart |-> TRUE, walk |-> <<root>> \o w] :
            w \in UNION {[1..n -> Parts] : n \in 1..MaxParts}}

\* Line 146, "Could not decode email body".
Sentinel ==
  <<67, 111, 117, 108, 100, 32, 110, 111, 116, 32, 100, 101, 99, 111, 100,
    101, 32, 101, 109, 97, 105, 108, 32, 98, 111, 100, 121>>

InitMime ==
  /\ InitServer
  /\ locals \in {[fn |-> "get_email_body", msg |-> m, at |-> "call", k |-> 1,
                  text_content |-> <<>>, html_content |-> <<>>,
                  out |-> <<>>] : m \in Messages}

\* Lines 115-119: a multipart message, the loop over msg.walk() begins.
MimeBegin ==
  /\ locals.fn = "get_email_body"
  /\ locals.at = "call"
  /\ locals.msg.multipart
  /\ locals' = [locals EXCEPT !.at = "walk"]
  /\ UNCHANGED server

\* Lines 119-137, one iteration: skip says the part is passed over by the
\* test of line 124, tc and hc are the accumulators after the iteration.
AtPart(skip, tc, hc) ==
  /\ locals.fn = "get_email_body"
  /\ locals.at = "walk"
  /\ locals.k <= Len(locals.msg.walk)
  /\ skip = Contains(locals.msg.walk[locals.k].disposition,
                     <<"a","t","t","a","c","h","m","e","n","t">>)
  /\ locals' = [locals EXCEPT !.k = @ + 1, !.text_content = tc,
                              !.html_content = hc]
  /\ UNCHANGED server

\* Lines 124-125: "attachment" in content_disposition, continue.
MimeSkip ==
  /\ locals.at = "walk" /\ locals.k <= Len(locals.msg.walk)
  /\ AtPart(TRUE, locals.text_content, locals.html_content)

\* Lines 128, 136-137: get_payload raises, except: pass.
MimePartError ==
  /\ locals.at = "walk" /\ locals.k <= Len(locals.msg.walk)
  /\ locals.msg.walk[locals.k].raises
  /\ AtPart(FALSE, locals.text_content, locals.html_content)

\* Lines 129-132.
MimePlain ==
  /\ locals.at = "walk" /\ locals.k <= Len(locals.msg.walk)
  /\ LET q == locals.msg.walk[locals.k] IN
     /\ ~q.raises /\ q.payload # <<>> /\ q.content_type = "text/plain"
     /\ AtPart(FALSE, Utf8Replace(q.payload), locals.html_content)

\* Lines 129-130, 133-134.
MimeHtml ==
  /\ locals.at = "walk" /\ locals.k <= Len(locals.msg.walk)
  /\ LET q == locals.msg.walk[locals.k] IN
     /\ ~q.raises /\ q.payload # <<>> /\ q.content_type = "text/html"
     /\ AtPart(FALSE, locals.text_content, Utf8Replace(q.payload))

\* Lines 129-134 with nothing assigned: the payload is empty, or the part is
\* of another content type.
MimeNoText ==
  /\ locals.at = "walk" /\ locals.k <= Len(locals.msg.walk)
  /\ LET q == locals.msg.walk[locals.k] IN
     /\ ~q.raises
     /\ q.payload = <<>> \/ q.content_type \notin {"text/plain", "text/html"}
     /\ AtPart(FALSE, locals.text_content, locals.html_content)

\* Line 140: return text_content if text_content else html_content.
MimeReturn ==
  /\ locals.fn = "get_email_body"
  /\ locals.at = "walk"
  /\ locals.k > Len(locals.msg.walk)
  /\ locals' = [locals EXCEPT
                  !.at = "return",
                  !.out = IF locals.text_content # <<>>
                          THEN locals.text_content
                          ELSE locals.html_content]
  /\ UNCHANGED server

\* Lines 142-146: a message that is not multipart.
MimeSingle ==
  /\ locals.fn = "get_email_body"
  /\ locals.at = "call"
  /\ ~locals.msg.multipart
  /\ LET q == locals.msg.walk[1] IN
     locals' = [locals EXCEPT
                  !.at = "return",
                  !.out = IF q.raises THEN Sentinel
                          ELSE Utf8Replace(q.payload)]
  /\ UNCHANGED server

NextMime ==
  \/ MimeBegin
  \/ MimeSkip \/ MimePartError \/ MimePlain \/ MimeHtml \/ MimeNoText
  \/ MimeReturn \/ MimeSingle

SpecMime == InitMime /\ [][NextMime]_vars

\* ------------------------------------------- list_folders: the LIST lines
\* decode_modified_utf7(s) from position i on, as one value: the text, or
\* raises when an escape fails with an error line 189 does not catch.
RECURSIVE Utf7From(_, _)
Utf7From(s, i) ==
  LET j == Find(s, Dash, i + 1)
      payload == SubSeq(s, i + 1, j - 1)
      d == DecodePayload(payload)
      then(text, next) ==
        LET r == Utf7From(s, next) IN
        [raises |-> r.raises, text |-> text \o r.text]
  IN IF i > Len(s) THEN [raises |-> FALSE, text |-> <<>>]
     ELSE IF ~EscapeStart(s, i) THEN then(<<s[i]>>, i + 1)
     ELSE IF j = 0 THEN then(<<Amp>>, i + 1)
     ELSE IF LiteralAmpersand(i, j) THEN then(<<Amp>>, i + 2)
     ELSE IF d.kind = "ok" THEN then(d.text, j + 1)
     ELSE IF Caught(d.kind) THEN then(<<Amp>> \o payload \o <<Dash>>, j + 1)
     ELSE [raises |-> TRUE, text |-> <<>>]

\* LIST response lines as the server may send them, in bytes:
\*   () "/" "A"     () "/" A     () NIL A     () "/" "A&-E"
\*   () "/" "&\xc3\xa9-"     () "/" ""     () "/" "A" followed by a space
FolderLines ==
  { <<40, 41, 32, 34, 47, 34, 32, 34, 65, 34>>,
    <<40, 41, 32, 34, 47, 34, 32, 65>>,
    <<40, 41, 32, 78, 73, 76, 32, 65>>,
    <<40, 41, 32, 34, 47, 34, 32, 34, 65, 38, 45, 69, 34>>,
    <<40, 41, 32, 34, 47, 34, 32, 34, 38, 195, 169, 45, 34>>,
    <<40, 41, 32, 34, 47, 34, 32, 34, 34>>,
    <<40, 41, 32, 34, 47, 34, 32, 34, 65, 34, 32>> }

\* Lines 225-227 and 240-242 on folder_str: how the name is found ("match"
\* by re.search(r'"([^"]+)"$'), "split" by the fallback, "none") and the
\* name before it is decoded.
FolderName(s) ==
  LET n == Len(s)
      quotes == {i \in 1..(n - 1) : s[i] = 34}
      open == CHOOSE i \in quotes : \A j \in quotes : j <= i
      seps == {i \in 1..(n - 1) : s[i] = 32 /\ s[i + 1] = 34}
      last == CHOOSE i \in seps : \A j \in seps : j <= i
      piece == SubSeq(s, last + 2, n)
      inner == {i \in 1..Len(piece) : piece[i] # 34}
      lo == CHOOSE i \in inner : \A j \in inner : i <= j
      hi == CHOOSE i \in inner : \A j \in inner : j <= i
  IN IF n >= 3 /\ s[n] = 34 /\ quotes # {} /\ open < n - 1
     THEN [how |-> "match", name |-> SubSeq(s, open + 1, n - 1)]
     ELSE IF seps # {}
          THEN [how |-> "split",
                name |-> IF inner = {} THEN <<>> ELSE SubSeq(piece, lo, hi)]
     ELSE [how |-> "none", name |-> <<>>]

\* Lines 215-216.  logged holds the positions of the lines ctx.error was
\* called for, source the position of the line each name came from.
InitFolders ==
  /\ InitServer
  /\ locals \in {[fn |-> "list_folders", folders |-> f, k |-> 1,
                  folder_list |-> <<>>, source |-> <<>>, logged |-> {},
                  at |-> "loop"] :
                   f \in UNION {[1..n -> FolderLines] : n \in 1..MaxLines}}

\* Lines 216-249, one iteration on the line at k.
AtLine(how, raises) ==
  /\ locals.fn = "list_folders"
  /\ locals.at = "loop"
  /\ locals.k <= Len(locals.folders)
  /\ LET f == FolderName(Utf8Replace(locals.folders[locals.k]))
         d == Utf7From(f.name, 1) IN
     /\ f.how = how
     /\ d.raises = raises
     /\ locals' =
          IF how = "none" \/ raises
          THEN [locals EXCEPT !.k = @ + 1, !.logged = @ \cup {locals.k}]
          ELSE [locals EXCEPT !.k = @ + 1,
                              !.folder_list = Append(@, d.text),
                              !.source = Append(@, locals.k)]
  /\ UNCHANGED server

\* Lines 226-237.
FolderMatch == locals.fn = "list_folders" /\ AtLine("match", FALSE)

\* Lines 240-244.
FolderSplit == locals.fn = "list_folders" /\ AtLine("split", FALSE)

\* Lines 245-246.
FolderUnparsed == locals.fn = "list_folders" /\ AtLine("none", FALSE)

\* Lines 232, 243 and 247-249: decode_modified_utf7 raises, the line is
\* logged and the loop continues.
FolderError ==
  /\ locals.fn = "list_folders"
  /\ \E how \in {"match", "split"} : AtLine(how, TRUE)

\* Line 254.
FolderReturn ==
  /\ locals.fn = "list_folders"
  /\ locals.at = "loop"
  /\ locals.k > Len(locals.folders)
  /\ locals' = [locals EXCEPT !.at = "return"]
  /\ UNCHANGED server

NextFolders ==
  \/ FolderMatch \/ FolderSplit \/ FolderUnparsed \/ FolderError
  \/ FolderReturn

SpecFolders == InitFolders /\ [][NextFolders]_vars

\* ============================================================ properties
ConnectReturned(p) ==
  pc[p] = "enter" \/ (pc[p] = "done" /\ res[p] = ConnectFailed)

\* C1 (as stated): whenever connect_to_email returns a failure, the session
\* holds no connection handle afterwards, whatever it held before.
ConnectFailureLeavesNoHandle ==
  \A p \in Procs :
    (pc[p] = "done" /\ res[p] = ConnectFailed) => connection = NoConn

\* C2: a call never probes more than once, and when the probe of the stored
\* connection answers OK, connect_to_email returns True at once: one NOOP, no
\* connection created, no login, the stored handle is the one the call found.
HealthyProbeReturnsAtOnce ==
  \A p \in Procs :
    /\ call[p].probes <= 1
    /\ call[p].probed = "OK" =>
         /\ pc[p] = "enter"
         /\ call[p].via = "probe"
         /\ call[p].probes = 1
         /\ call[p].attempts = 0
         /\ call[p].logins = 0
         /\ call[p].conn0 # NoConn
         /\ connection = call[p].conn0

HealthyProbeSeen ==
  \E p \in Procs : pc[p] = "enter" /\ call[p].probed = "OK" /\ calls = 2

\* C3: a call makes at most one attempt to create a connection and at most
\* one login.  When connect_to_email returns without a successful probe it
\* made exactly one attempt, or none when the credentials are missing; if it
\* returns True the session holds the new, authenticated handle, and if it
\* returns False the stored value is the one the call found.
OneLoginAttemptPerCall ==
  \A p \in Procs :
    LET c == call[p] IN
    /\ c.attempts <= 1
    /\ c.logins <= c.attempts
    /\ (ConnectReturned(p) /\ c.probed # "OK") =>
         /\ c.attempts = (IF c.nocreds THEN 0 ELSE 1)
         /\ pc[p] = "enter" =>
              /\ c.logins = 1
              /\ c.via = "login"
              /\ connection \notin {NoConn, c.conn0}
              /\ imap[connection].st = "authed"
         /\ pc[p] = "done" => connection = c.conn0

ReloginAfterFailedProbe ==
  \E p \in Procs :
    /\ pc[p] = "enter"
    /\ call[p].probed \in {"NO", "EXC"}
    /\ call[p].via = "login"

\* C4: the handle stored in the session is one whose login completed; a
\* handle that was created and is still being logged in is never the stored one.
StoredHandleIsAuthenticated ==
  /\ connection # NoConn => imap[connection].st = "authed"
  /\ \A p \in Procs : call[p].newconn # NoConn => call[p].newconn # connection

LoginInFlightBesideStored ==
  \E p \in Procs :
    /\ pc[p] = "login"
    /\ imap[call[p].newconn].st = "created"
    /\ connection # NoConn

\* C5: in every call of a folder-scoped tool the first verb is SELECT of the
\* tool's own folder argument, every other verb comes after a SELECT that
\* answered OK, verbs are issued only after connect_to_email returned True,
\* and a call whose connect failed issues no verb.
FolderVerbs == {"SEARCH", "FETCH", "STORE", "COPY", "EXPUNGE"}

SelectOwnFolderFirst ==
  \A p \in Procs :
    LET l == log[p]
        c == call[p] IN
    /\ res[p] = ConnectFailed => l = <<>>
    /\ l # <<>> => c.via \in {"probe", "login"}
    /\ (l # <<>> /\ c.op \in FolderTools) =>
         /\ l[1].v = "SELECT" /\ l[1].a = c.folder
         /\ \A i \in 2..Len(l) : l[i].v \in FolderVerbs /\ l[1].st = "OK"

ReselectedSameFolder ==
  \E p \in Procs :
    /\ call[p].op \in FolderTools
    /\ call[p].sel0 = call[p].folder
    /\ Len(log[p]) >= 2
    /\ log[p][1] = Entry("SELECT", call[p].folder, "OK")

\* C6: when SELECT answers NO, it is the last verb of the call, the tool
\* returns the folder error naming its folder, and the call has changed no
\* message.
SelectRejectedStops ==
  \A p \in Procs :
    \A i \in 1..Len(log[p]) :
      (log[p][i].v = "SELECT" /\ log[p][i].st = "NO") =>
        /\ i = Len(log[p])
        /\ pc[p] = "done"
        /\ res[p] = Result("folder_error", call[p].folder)
        /\ ~call[p].changed

SelectRejectedSeen ==
  \E p \in Procs :
    /\ pc[p] = "done"
    /\ res[p].kind = "folder_error"
    /\ call[p].op \in {"move_email", "delete_email", "read_email"}

MoveVerbs == <<"SELECT", "COPY", "STORE", "EXPUNGE">>

MoveOrder(p) ==
  LET l == log[p] IN
  call[p].op = "move_email" =>
    /\ Len(l) <= Len(MoveVerbs)
    /\ \A i \in 1..Len(l) :
         /\ l[i].v = MoveVerbs[i]
         /\ i < Len(l) => l[i].st = "OK"
         /\ l[i].v = "COPY" => l[i].a = call[p].dst

Present(m, f) == \E i \in 1..Len(mailbox[f]) : mailbox[f][i].mid = m

Kept(p) ==
  Present(call[p].target.mid, call[p].folder)
    \/ Present(call[p].target.mid, call[p].dst)

\* C8 (as stated): ... and at every point of a move the moved message is in
\* the source or in the destination folder.
MoveNeverLosesMessage ==
  \A p \in Procs :
    /\ MoveOrder(p)
    /\ (call[p].op = "move_email" /\ call[p].target # NoMsg) => Kept(p)

\* C8 (amended): ... and at every point of a move the moved message is in
\* the source or in the destination folder, unless the two are the same
\* folder and the message carried \Deleted before the move.
MoveKeepsMessage ==
  \A p \in Procs :
    /\ MoveOrder(p)
    /\ ( /\ call[p].op = "move_email"
         /\ call[p].target # NoMsg
         /\ (call[p].folder # call[p].dst
               \/ "Deleted" \notin call[p].target.flags) ) => Kept(p)

MoveCompleted ==
  \E p \in Procs :
    /\ call[p].op = "move_email"
    /\ pc[p] = "done" /\ res[p] = Ok
    /\ Len(log[p]) = 4 /\ log[p][4].st = "OK"
    /\ call[p].folder # call[p].dst
    /\ ~Present(call[p].target.mid, call[p].folder)
    /\ Present(call[p].target.mid, call[p].dst)

\* C9 (as stated): move and delete report success only if every step,
\* the expunge included, succeeded.
SuccessMeansEveryStepSucceeded ==
  \A p \in Procs :
    (pc[p] = "done" /\ res[p] = Ok
       /\ call[p].op \in {"move_email", "delete_email"}) =>
      \A i \in 1..Len(log[p]) : log[p][i].st = "OK"

\* The mailbox one successful execution of move or delete leaves.
OneExecution(mb, o, id, f, d) ==
  IF ~InRange(mb, f, id) THEN mb
  ELSE IF o = "move_email"
       THEN ServerExpunge(
              ServerStoreAdd(ServerCopy(mb, f, id, d), f, id, "Deleted"), f)
       ELSE ServerExpunge(ServerStoreAdd(mb, f, id, "Deleted"), f)

Complete(p) ==
  /\ pc[p] = "done" /\ res[p] = Ok
  /\ \A i \in 1..Len(log[p]) : log[p][i].st = "OK"

AsOneExecution(p) ==
  mailbox = OneExecution(snap, call[p].op, call[p].email_id, call[p].folder,
                         call[p].dst)

\* C10 (as stated): a move or delete repeated with the same arguments after
\* a first complete or partial execution leaves the mailbox as one
\* successful execution from the first call's starting point would.
RetryIsIdempotent ==
  \A p \in Procs : (call[p].retry /\ Complete(p)) => AsOneExecution(p)

\* C10 (amended): that holds when the first execution of a delete failed
\* before its EXPUNGE took effect, or the first execution of a move failed
\* before its COPY took effect.
RetryAfterEarlyFailureIsIdempotent ==
  \A p \in Procs :
    ( /\ call[p].retry
      /\ Complete(p)
      /\ (IF prev.op = "move_email" THEN "COPY" \notin prev.effects
          ELSE "EXPUNGE" \notin prev.effects) ) => AsOneExecution(p)

RetryCompletesDelete ==
  \E p \in Procs :
    /\ call[p].retry
    /\ Complete(p)
    /\ prev.op = "delete_email"
    /\ prev.effects = {"STORE"}
    /\ mailbox # snap

SearchAnswered(p) ==
  \E i \in 1..Len(log[p]) : log[p][i].v = "SEARCH" /\ log[p][i].st = "OK"

\* C11 (as stated): search_emails never returns more results than its limit
\* argument, for every limit >= 0.
SearchResultsWithinLimit ==
  \A p \in Procs :
    call[p].op = "search_emails" => Len(call[p].results) <= call[p].limit

\* The last k elements of ids, in order.
LastIds(ids, k) == [i \in 1..k |-> ids[Len(ids) - k + i]]

MentionsKeyword(q) ==
  \E x \in Keywords :
    \E i \in 0..(Len(q) - Len(x)) :
      \A k \in 1..Len(x) : UpperChar(q[i + k]) = x[k]

\* C13: a query that mentions none of the keywords (in any letter case) is
\* sent to the server as ALL and is answered with every id of the folder,
\* as a query ALL is; a query that mentions a keyword is sent as written.
UnknownQueryIsMatchAll ==
  \A p \in Procs :
    LET c == call[p] IN
    (c.op = "search_emails" /\ c.sent # <<>>) =>
      /\ c.sent = (IF MentionsKeyword(c.query) THEN c.query ELSE All)
      /\ (~MentionsKeyword(c.query) /\ SearchAnswered(p)) =>
           c.found = [i \in 1..Len(mailbox[c.folder]) |-> i]

UnknownQuerySentAsAll ==
  \E p \in Procs :
    LET c == call[p] IN
    /\ c.op = "search_emails"
    /\ c.query = <<"x">>
    /\ c.sent = All
    /\ SearchAnswered(p)
    /\ Len(c.found) = 2

\* C14: read_email returns a body of at most 2000 characters as it is, and
\* of a longer body its first 2000 characters followed by the marker "...".
ReadTruncatesLongBody ==
  (locals.fn = "read_email" /\ locals.at = "return") =>
    LET b == locals.body
        o == locals.out IN
    /\ Len(b) <= 2000 => o = b
    /\ Len(b) > 2000 =>
         /\ Len(o) = 2003
         /\ \A k \in 1..2000 : o[k] = b[k]
         /\ \A k \in 2001..2003 : o[k] = 46

LongBodyTruncated ==
  /\ locals.fn = "read_email"
  /\ locals.at = "return"
  /\ Len(locals.body) = 2500
  /\ Len(locals.out) = 2003

Decoding == locals.fn = "decode_modified_utf7"

\* C15 (as stated): decode_modified_utf7 returns a string for every input,
\* whatever stands between '&' and the next '-'; it never raises.
Utf7NeverRaises == Decoding => locals.at # "raise"

\* C16 (as stated): when the text between '&' and the next '-' is not empty
\* and cannot be decoded, the pass emits '&', that text as written and '-',
\* and the scan goes on after the '-'.
FailedEscapeEmittedAsWritten ==
  Decoding =>
    LET s == locals.s
        f == locals.from
        j == Find(s, Dash, f + 1)
        payload == SubSeq(s, f + 1, j - 1) IN
    ( /\ locals.last \in {"decoded", "fallback", "raised"}
      /\ DecodePayload(payload).kind # "ok" ) =>
        /\ locals.at # "raise"
        /\ locals.i = j + 1
        /\ SubSeq(locals.result, locals.mark + 1, Len(locals.result))
             = SubSeq(s, f, j)

\* C17 (as stated): for an input with an '&' that no '-' follows, the
\* function does not raise and its output ends with the input's tail from
\* that '&' on, character for character.
DanglingAmpersandKeepsTail ==
  (Decoding /\ locals.at \in {"return", "raise"}) =>
    LET s == locals.s
        r == locals.result IN
    \A k \in 1..Len(s) :
      (s[k] = Amp /\ \A m \in (k + 1)..Len(s) : s[m] # Dash) =>
        /\ locals.at = "return"
        /\ Len(r) >= Len(s) - k + 1
        /\ SubSeq(r, Len(r) - (Len(s) - k), Len(r)) = SubSeq(s, k, Len(s))

HasNoAmpersand(s) == \A k \in 1..Len(s) : s[k] # Amp

\* C18: an input without '&' is copied character by character and returned
\* unchanged; the function does not raise on it.
PlainTextUnchanged ==
  (Decoding /\ HasNoAmpersand(locals.s)) =>
    /\ locals.at # "raise"
    /\ locals.result = SubSeq(locals.s, 1, Len(locals.result))
    /\ locals.at = "loop" => Len(locals.result) = locals.i - 1
    /\ locals.at = "return" => locals.result = locals.s

PlainTextReturned ==
  /\ Decoding
  /\ locals.at = "return"
  /\ HasNoAmpersand(locals.s)
  /\ Len(locals.s) >= 4
  /\ \E k \in 1..Len(locals.s) : locals.s[k] = Dash
  /\ \E k \in 1..Len(locals.s) : locals.s[k] = Comma
  /\ \E k \in 1..Len(locals.s) : locals.s[k] = 233

\* C19: a pass that starts at "&-" emits exactly one '&' and moves on by two
\* characters, whatever surrounds it; "&-" decodes to "&" and "A&-E" to "A&E".
LiteralAmpersandDecoded ==
  Decoding =>
    LET s == locals.s
        f == locals.from IN
    /\ ( /\ locals.last # "none"
         /\ s[f] = Amp /\ f + 1 <= Len(s) /\ s[f + 1] = Dash ) =>
           /\ locals.last = "literal"
           /\ locals.i = f + 2
           /\ Len(locals.result) = locals.mark + 1
           /\ locals.result[locals.mark + 1] = Amp
    /\ s \in {<<Amp, Dash>>, <<65, Amp, Dash, 69>>} => locals.at # "raise"
    /\ (locals.at = "return" /\ s = <<Amp, Dash>>) => locals.result = <<Amp>>
    /\ (locals.at = "return" /\ s = <<65, Amp, Dash, 69>>) =>
         locals.result = <<65, Amp, 69>>

LiteralAmpersandReturned ==
  /\ Decoding
  /\ locals.at = "return"
  /\ locals.s = <<65, Amp, Dash, 69>>
  /\ locals.result = <<65, Amp, 69>>

\* What one span of a header stands for: a literal span its own text, an
\* encoded word its bytes in its character set, or in UTF-8 with replacement
\* characters when the set is unknown or rejects the bytes.
SegmentText(item) ==
  IF item.kind = "literal" THEN item.bytes
  ELSE IF StrictOk(item.charset, item.bytes)
       THEN StrictText(item.charset, item.bytes)
       ELSE Utf8Replace(item.bytes)

RECURSIVE ConcatSegments(_)
ConcatSegments(h) ==
  IF h = <<>> THEN <<>> ELSE SegmentText(h[1]) \o ConcatSegments(Tail(h))

\* C20 (as stated): decode_email_header does not raise and returns the
\* texts of the header's spans in header order, each encoded word decoded on
\* its own.
HeaderDecodedSegmentwise ==
  locals.fn = "decode_email_header" =>
    /\ locals.at # "raise"
    /\ locals.at = "return" =>
         locals.header_text = ConcatSegments(locals.header)

\* ------------------------------------------------------------------------
\* get_email_body has returned for a multipart message.
MimeReturned ==
  /\ locals.fn = "get_email_body"
  /\ locals.at = "return"
  /\ locals.msg.multipart

\* The disposition type of a Content-Disposition value: the token before the
\* first ";", compared without regard to case (RFC 2183).
DispositionType(d) ==
  LET semi == {i \in 1..Len(d) : d[i] = ";"}
      n == IF semi = {} THEN Len(d)
           ELSE (CHOOSE i \in semi : \A j \in semi : i <= j) - 1
      lower(c) == CASE c = "A" -> "a" [] c = "T" -> "t" [] c = "C" -> "c"
                    [] c = "H" -> "h" [] c = "M" -> "m" [] c = "E" -> "e"
                    [] c = "N" -> "n" [] OTHER -> c
  IN [i \in 1..n |-> lower(d[i])]

MarkedAttachment(q) ==
  DispositionType(q.disposition) = <<"a","t","t","a","c","h","m","e","n","t">>

\* The positions in msg.walk() of the parts of content type ct that are not
\* marked as attachments and whose payload can be read.
TextParts(ct) ==
  {k \in 1..Len(locals.msg.walk) :
     LET q == locals.msg.walk[k] IN
       q.content_type = ct /\ ~MarkedAttachment(q) /\ ~q.raises}

UsableParts(ct) == {k \in TextParts(ct) : locals.msg.walk[k].payload # <<>>}

TextOf(k) == Utf8Replace(locals.msg.walk[k].payload)

\* C21 (as stated): for a multipart message get_email_body returns the plain
\* accumulator if it is non-empty, else the HTML accumulator if it is
\* non-empty, else the sentinel 'could not decode' string; a multipart message
\* without a non-attachment text part of non-empty payload yields the sentinel.
MimeEmptyYieldsSentinel ==
  MimeReturned =>
    /\ locals.out = IF locals.text_content # <<>> THEN locals.text_content
                    ELSE IF locals.html_content # <<>>
                         THEN locals.html_content
                         ELSE Sentinel
    /\ (UsableParts("text/plain") \cup UsableParts("text/html") = {})
         => locals.out = Sentinel

\* C22 (as stated): for a multipart message the result is the text of a
\* non-attachment text/plain part whenever one has a non-empty payload, the
\* text of a non-attachment text/html part only when no such plain part
\* exists, and never content of a part marked as an attachment.
MimePrefersPlainSkipsAttachments ==
  MimeReturned =>
    /\ UsableParts("text/plain") # {}
         => \E k \in UsableParts("text/plain") : locals.out = TextOf(k)
    /\ (UsableParts("text/plain") = {} /\ locals.out # <<>>)
         => \E k \in UsableParts("text/html") : locals.out = TextOf(k)

\* C23 (as stated): for a multipart message each accumulator holds the text
\* of the last non-attachment part of its type in depth-first order, and is
\* empty when there is no such part.
LastOf(ct) ==
  IF TextParts(ct) = {} THEN <<>>
  ELSE TextOf(CHOOSE k \in TextParts(ct) : \A j \in TextParts(ct) : j <= k)

MimeLastPartOfTypeWins ==
  MimeReturned =>
    /\ locals.text_content = LastOf("text/plain")
    /\ locals.html_content = LastOf("text/html")

\* ------------------------------------------------------------------------
\* The quoted tokens of a LIST line: the quotes pair up from the left.
QuotePositions(s) == {i \in 1..Len(s) : s[i] = 34}

EndsInQuotedToken(s) ==
  /\ s # <<>>
  /\ s[Len(s)] = 34
  /\ Cardinality(QuotePositions(s)) % 2 = 0

\* The text of the last complete quoted token of s, which has one.
LastQuotedToken(s) ==
  LET q == QuotePositions(s)
      paired == IF Cardinality(q) % 2 = 0 THEN q
                ELSE q \ {CHOOSE i \in q : \A j \in q : j <= i}
      close == CHOOSE i \in paired : \A j \in paired : j <= i
      open == CHOOSE i \in paired \ {close} :
                \A j \in paired \ {close} : j <= i
  IN SubSeq(s, open + 1, close - 1)

FolderLine(k) == Utf8Replace(locals.folders[k])

\* C24 (as stated): a LIST line that does not end in a double-quoted token
\* contributes no name to the result of list_folders, is logged, and the
\* lines after it are still processed.
UnquotedLineSkipped ==
  locals.fn = "list_folders" =>
    /\ \A k \in 1..(locals.k - 1) :
         ~EndsInQuotedToken(FolderLine(k)) =>
           /\ \A i \in 1..Len(locals.source) : locals.source[i] # k
           /\ k \in locals.logged
    /\ locals.at = "return" => locals.k = Len(locals.folders) + 1

\* C25 (as stated): the names list_folders returns stand in the order of the
\* LIST lines they came from, no line gives more than one name, and each
\* name is the modified-UTF-7 decoding of the last double-quoted token of
\* its line.
NamesAreLastQuotedTokens ==
  (locals.fn = "list_folders" /\ locals.at = "return") =>
    /\ Len(locals.source) = Len(locals.folder_list)
    /\ \A i, j \in 1..Len(locals.source) :
         i < j => locals.source[i] < locals.source[j]
    /\ \A i \in 1..Len(locals.source) :
         LET s == FolderLine(locals.source[i]) IN
         /\ Cardinality(QuotePositions(s)) >= 2
         /\ locals.folder_list[i] = Utf7From(LastQuotedToken(s), 1).text

\* ------------------------------------------------------------------------
MarkTools == {"mark_as_read", "mark_as_unread"}

Stores(l) == {i \in 1..Len(l) : l[i].v = "STORE"}

\* What a STORE step of a mark tool on message id of folder f may change:
\* nothing but the Seen flag of that message.
OnlySeenOf(f, id) ==
  /\ \A g \in Folders : Len(mailbox'[g]) = Len(mailbox[g])
  /\ \A g \in Folders : \A i \in 1..Len(mailbox[g]) :
       /\ mailbox'[g][i].mid = mailbox[g][i].mid
       /\ mailbox'[g][i].flags \ {"Seen"} = mailbox[g][i].flags \ {"Seen"}
       /\ (g # f \/ i # id) => mailbox'[g][i] = mailbox[g][i]

\* C26: a mark tool sends SELECT and then one STORE and nothing else: no
\* COPY, no EXPUNGE, no second STORE.  The STORE of mark_as_read that answers
\* OK leaves the Seen flag on the message of the given id, that of
\* mark_as_unread leaves it off, and neither changes another flag or another
\* message; marking read a message that is already read changes nothing.
MarkStoresSeenOnce ==
  /\ [](\A p \in Procs :
          call[p].op \in MarkTools =>
            /\ \A i \in 1..Len(log[p]) : log[p][i].v \in {"SELECT", "STORE"}
            /\ Cardinality(Stores(log[p])) <= 1
            /\ \A i \in Stores(log[p]) : log[p][i].a = "Seen"
            /\ (pc[p] = "done" /\ res[p] = Ok)
                 => Cardinality(Stores(log[p])) = 1)
  /\ [][\A p \in Procs :
          (call[p].op \in MarkTools /\ pc[p] = "store" /\ pc'[p] # "store") =>
            LET f == call[p].folder
                id == call[p].email_id
                st == log'[p][Len(log'[p])].st IN
            /\ pc'[p] = "done"
            /\ OnlySeenOf(f, id)
            /\ st # "OK" => mailbox' = mailbox
            /\ (st = "OK" /\ call[p].op = "mark_as_read") =>
                 /\ "Seen" \in mailbox'[f][id].flags
                 /\ "Seen" \in mailbox[f][id].flags => mailbox' = mailbox
            /\ (st = "OK" /\ call[p].op = "mark_as_unread") =>
                 "Seen" \notin mailbox'[f][id].flags]_vars

\* mark_as_read has stored the flag on its message and left the other one.
MarkReadStored ==
  \E p \in Procs :
    /\ pc[p] = "done" /\ res[p] = Ok
    /\ call[p].op = "mark_as_read"
    /\ mailbox[call[p].folder][call[p].email_id].flags = {"Seen"}
    /\ \E i \in Ids \ {call[p].email_id} :
         /\ InRange(mailbox, call[p].folder, i)
         /\ mailbox[call[p].folder][i].flags = {}

\* ------------------------------------------------------------------------
Stopped == \A p \in Procs : pc[p] = "stopped"

Logouts == {i \in 1..Len(log[1]) : log[1][i].v = "LOGOUT"}

\* A login has succeeded at some point: the handle it authenticated is
\* still marked so, or was logged out at shutdown.
EverEstablished == \E h \in Handles : imap[h].st \in {"authed", "logout"}

\* C27: when the server has stopped, logout was attempted once if a login
\* ever succeeded, and not at all otherwise; whatever the logout answered or
\* raised, the shutdown completed.
LogoutOnceAtShutdown ==
  /\ (\E p \in Procs : pc[p] = "stopped") => Stopped
  /\ Stopped =>
       /\ Cardinality(Logouts) = IF EverEstablished THEN 1 ELSE 0
       /\ \A p \in Procs : res[p] = Result("stopped", "")
  /\ ~Stopped => Logouts = {}

\* The logout raised and the server stopped all the same.
LogoutFailureSwallowed ==
  /\ Stopped
  /\ log[1] = <<Entry("LOGOUT", "", "EXC")>>

\* ------------------------------------------------------------------------
\* A first (not repeated) move or delete has run to its end; snap is the
\* mailbox it started from.
Removed(p) ==
  /\ call[p].op \in {"move_email", "delete_email"}
  /\ ~call[p].retry
  /\ Complete(p)

Others(p) ==
  {i \in 1..Len(snap[call[p].folder]) : i # call[p].email_id}

StillThere(m, f) ==
  \E i \in 1..Len(mailbox[f]) : mailbox[f][i] = m

\* C28 (as stated): a completed delete or move removes from its folder only
\* the message of the given id: every other message the folder held when
\* the call began, one that already carried \Deleted included, is still in
\* the folder afterwards.
OnlyTargetRemoved ==
  \A p \in Procs :
    Removed(p) =>
      \A i \in Others(p) :
        Present(snap[call[p].folder][i].mid, call[p].folder)

\* C28 (amended): a completed delete or move removes from its folder the
\* message of the given id together with every message of that folder that
\* already carried \Deleted: afterwards no message of the folder carries
\* \Deleted, and every other message that did not carry it when the call
\* began is still in the folder with the flags it had.
FlaggedRemovedOthersKept ==
  \A p \in Procs :
    Removed(p) =>
      LET f == call[p].folder IN
      /\ \A i \in 1..Len(mailbox[f]) : NotDeleted(mailbox[f][i])
      /\ \A i \in Others(p) :
           NotDeleted(snap[f][i]) => StillThere(snap[f][i], f)
      /\ Len(mailbox[f]) <= Len(snap[f])

\* A delete has removed, with its own message, one an earlier failed delete
\* had left flagged.
FlaggedOtherExpunged ==
  \E p \in Procs :
    /\ Removed(p)
    /\ call[p].op = "delete_email"
    /\ \E i \in Others(p) : ~NotDeleted(snap[call[p].folder][i])
    /\ mailbox[call[p].folder] = <<>>

\* A delete has left the other, unflagged message of its folder in place.
UnflaggedOtherKept ==
  \E p \in Procs :
    /\ Removed(p)
    /\ call[p].op = "delete_email"
    /\ Len(snap[call[p].folder]) = 2
    /\ \E i \in Others(p) :
         /\ NotDeleted(snap[call[p].folder][i])
         /\ mailbox[call[p].folder] = <<snap[call[p].folder][i]>>

\* ------------------------------------------------------------------------
LastStatus(p) == log[p][Len(log[p])].st

\* C29: every tool that has ended holds a value for its caller, a result or
\* an error; a verb that raised or answered with nothing usable ends the
\* tool with the error value of its except clause; a tool never stops half
\* way with no step to take; and the next call starts by probing the stored
\* connection, or by logging in when none is stored, and logs in again when
\* the probe fails.
EveryCallHandsValue ==
  /\ [](\A p \in Procs :
          /\ pc[p] = "done" => res[p] # NoResult
          /\ (call[p].op # NoOp /\ log[p] # <<>>
                /\ LastStatus(p) \in {"EXC", "EMPTY"})
               => (pc[p] = "done" /\ res[p] = Exception)
          /\ pc[p] \notin {"idle", "done"} => ENABLED Next
          /\ pc[p] = "done" => ENABLED Return(p))
  /\ []((pc[1] = "idle" /\ calls < MaxCalls) => ENABLED Start(1))
  /\ [][\A p \in Procs :
          /\ (pc[p] = "idle" /\ pc'[p] # "idle") =>
               pc'[p] = IF connection # NoConn THEN "probe" ELSE "creds"
          /\ (pc[p] = "probe" /\ pc'[p] # "probe"
                /\ call'[p].probed # "OK") => pc'[p] = "creds"]_vars

\* The second call found the stored connection dead, logged in again, and a
\* verb of it raised: the call ended with the error value.
RaisedAfterRelogin ==
  \E p \in Procs :
    /\ calls = 2
    /\ call[p].op # NoOp
    /\ call[p].via = "login"
    /\ call[p].sel0 = NoSel
    /\ log[p] # <<>> /\ LastStatus(p) = "EXC"
    /\ pc[p] = "done" /\ res[p] = Exception
    /\ \E h \in Handles : h # connection /\ imap[h] = FreshImap

\* ------------------------------------------------------------------------
ReadOnlyTools ==
  {"list_folders", "search_emails", "read_email", "get_unread_count"}

ReadOnlyVerbs == {"LIST", "SELECT", "SEARCH", "FETCH"}

\* The read-only tools send no other verb than LIST, SELECT, SEARCH and
\* FETCH, and get_unread_count returns the number of ids the server
\* answered to its UNSEEN search.
ReadOnlyVerbsOnly ==
  \A p \in Procs :
    call[p].op \in ReadOnlyTools =>
      /\ \A i \in 1..Len(log[p]) : log[p][i].v \in ReadOnlyVerbs
      /\ (call[p].op = "get_unread_count" /\ pc[p] = "done" /\ res[p] = Ok)
           => /\ call[p].sent = Unseen
              /\ call[p].results \in
                   ServerSearch(mailbox, call[p].folder, Unseen)

\* The step changes no folder's membership and no flag but \Seen.
OnlySeenChanges ==
  \A g \in Folders :
    /\ Len(mailbox'[g]) = Len(mailbox[g])
    /\ \A i \in 1..Len(mailbox[g]) :
         /\ mailbox'[g][i].mid = mailbox[g][i].mid
         /\ mailbox'[g][i].flags \ {"Seen"} = mailbox[g][i].flags \ {"Seen"}
         /\ mailbox[g][i].flags \subseteq mailbox'[g][i].flags

\* C30 (as stated): the read-only tools send only LIST, SELECT, SEARCH and
\* FETCH, so no step of theirs changes a message's flags or the messages a
\* folder holds; get_unread_count returns the number of ids of the server's
\* answer.
ReadOnlyToolsChangeNothing ==
  /\ []ReadOnlyVerbsOnly
  /\ [][\A p \in Procs :
          call[p].op \in ReadOnlyTools => mailbox' = mailbox]_vars

\* C30 (amended): the read-only tools send only LIST, SELECT, SEARCH and
\* FETCH; no step of theirs changes the messages a folder holds or any flag
\* other than \Seen, and the only step that changes anything is a FETCH
\* that answers with the message, which sets \Seen on it; list_folders and
\* get_unread_count change nothing; get_unread_count returns the number of
\* ids of the server's answer.
ReadOnlyToolsSetOnlySeen ==
  /\ []ReadOnlyVerbsOnly
  /\ [][\A p \in Procs :
          call[p].op \in ReadOnlyTools =>
            /\ OnlySeenChanges
            /\ mailbox' # mailbox =>
                 /\ call[p].op \in {"read_email", "search_emails"}
                 /\ pc[p] = "fetch"
                 /\ log'[p][Len(log'[p])] = Entry("FETCH", "", "OK")]_vars

\* read_email has returned a message that was unread before: it is read now.
ReadSetSeen ==
  \E p \in Procs :
    /\ calls = 1
    /\ call[p].op = "read_email"
    /\ pc[p] = "done" /\ res[p] = Ok
    /\ mailbox[call[p].folder][call[p].email_id].flags = {"Seen"}

====
